---- MODULE Spec2Model ----
(***************************************************************************)
(* A model of the xcpcio scoreboard core: RankOptions and Rank             *)
(* (packages/libs/core/src/rank.ts) and the Contest module, createContest, *)
(* found in packages/apps/resolver/docker/docker_entry.sh, lines 229-527.  *)
(*                                                                         *)
(* Team, Submission, TeamProblemStatistics and ProblemStatistics are       *)
(* imported by rank.ts but their bodies are not part of the sources at     *)
(* hand; they are modelled from the specification (sections 3, 4.2).       *)
(***************************************************************************)
EXTENDS Integers, Sequences, FiniteSets, TLC

(***************************************************************************)
(* Bounds of the model.                                                    *)
(***************************************************************************)
NumTeams == 3
NumProblems == 2
MaxSubs == 3
MaxTime == 2
PenaltyUnit == 1
MaxMedal == 2
MaxBuilds == 2

(***************************************************************************)
(* Program constants.                                                      *)
(***************************************************************************)
\* rank.ts:24 multiplies by 0.0001: width 10000 is the whole contest
WidthScale == 10000
\* createContest: a.maxRank = 0x3F3F3F3F
Sentinel == 1061109567

TeamIds == 1..NumTeams
ProblemIds == 1..NumProblems
\* ids that no team / problem of the contest carries
UnknownTeam == NumTeams + 1
UnknownProblem == NumProblems + 1

\* the closed set of verdict classes (spec glossary: Verdict)
Statuses == {"ACCEPTED", "REJECTED", "PENDING", "COMPILATION_ERROR"}

\* widths (permyriad of the contest duration) the viewer sets in the Rank runs
Widths == {WidthScale \div 2, WidthScale}
\* contest durations, in seconds, of the setWidth runs
Durations == {0, 1, 3, 7, 18000}

\* an optional value: absent (undefined / null), or present
Absent == <<>>
Some(x) == <<x>>

None == "undefined"

VARIABLES
    duration,        \* contest.endTime.unix() - contest.startTime.unix()
    organization,    \* contest.organization is set (truthy)
    problemStats,    \* contest.problems[p].statistics
    submissions,     \* Rank.submissions
    teams,           \* Rank.teams, in array order
    rankStatistics,  \* Rank.rankStatistics.teamSolvedNum
    options,         \* Rank.options
    builds,          \* buildRank calls so far (counted up to MaxBuilds)
    buildsInRow,     \* buildRank calls since the options last changed (same)
    contestJSON,     \* the record given to createContest
    contest,         \* the Contest createContest returned
    otherRank,       \* a second Rank over the same Contest: teams, histogram, options
    otherComputed,   \* the problems' statistics as the second Rank's last build left them
    now,             \* the instant of the last getContestState call (the clock), seconds
    contestState     \* what the last getContestState call returned

vars == <<duration, organization, problemStats, submissions, teams,
          rankStatistics, options, builds, buildsInRow, contestJSON, contest,
          otherRank, otherComputed, now, contestState>>

rankVars == <<duration, organization, problemStats, submissions, teams,
              rankStatistics, options, builds, buildsInRow>>
contestVars == <<contestJSON, contest>>
otherVars == <<otherRank, otherComputed>>
clockVars == <<now, contestState>>

(***************************************************************************)
(* Generic helpers.                                                        *)
(***************************************************************************)
RECURSIVE SumSeq(_)
SumSeq(s) == IF s = <<>> THEN 0 ELSE Head(s) + SumSeq(Tail(s))

Range(s) == {s[i] : i \in DOMAIN s}

(***************************************************************************)
(* Submission                                                              *)
(***************************************************************************)
IsAccepted(s) == s.status = "ACCEPTED"
IsRejected(s) == s.status = "REJECTED"
IsPending(s) == s.status = "PENDING"
IsNotCalculatedPenaltyStatus(s) == s.status = "COMPILATION_ERROR"

\* Submission.compare: ascending timestamp, ties broken by submission id
SubmissionLess(a, b) ==
    \/ a.timestamp < b.timestamp
    \/ a.timestamp = b.timestamp /\ a.id < b.id

\* Array.prototype.sort is stable: a submission goes after every one that
\* does not compare greater than it
RECURSIVE InsertSubmission(_, _)
InsertSubmission(x, s) ==
    IF s = <<>> THEN <<x>>
    ELSE IF SubmissionLess(x, Head(s)) THEN <<x>> \o s
    ELSE <<Head(s)>> \o InsertSubmission(x, Tail(s))

RECURSIVE SortSubmissions(_)
SortSubmissions(s) ==
    IF s = <<>> THEN <<>>
    ELSE InsertSubmission(s[Len(s)], SortSubmissions(SubSeq(s, 1, Len(s) - 1)))

(***************************************************************************)
(* RankOptions                                                             *)
(***************************************************************************)
NewRankOptions ==
    [enableFilterSubmissionsByTimestamp |-> FALSE, width |-> 0, timestamp |-> 0]

\* setWidth with the product rounded up instead of down
CutoffRoundedUp(d, width) == (d * width + WidthScale - 1) \div WidthScale

\* Math.floor(d * width * 0.0001).  d * width is an exact integer below
\* 2^53; the double 0.0001 exceeds 1/10000 by a relative 4.8e-17, less than
\* half an ulp, so the rounded product is never below the quotient when that
\* is an integer and never reaches the next integer otherwise: the floor is
\* the integer quotient.
CutoffOf(d, width) == (d * width) \div WidthScale

SetWidthOptions(o, width, d) ==
    [o EXCEPT !.width = width,
              !.timestamp = CutoffOf(d, width),
              !.enableFilterSubmissionsByTimestamp = TRUE]

DisableFilterOptions(o) ==
    [o EXCEPT !.enableFilterSubmissionsByTimestamp = FALSE]

(***************************************************************************)
(* Rank.getSubmissions                                                     *)
(***************************************************************************)
\* the filter with a strict comparison
FilterBeforeTimestamp(subs, cutoff) ==
    SelectSeq(subs, LAMBDA s : s.timestamp < cutoff)

FilterByTimestamp(subs, cutoff) ==
    SelectSeq(subs, LAMBDA s : s.timestamp <= cutoff)

\* a filter that shows the submissions made at the cutoff instant only
GetSubmissionsAtCutoff(subs, o) ==
    IF o.enableFilterSubmissionsByTimestamp = FALSE
    THEN subs
    ELSE SortSubmissions(SelectSeq(subs, LAMBDA s : s.timestamp = o.timestamp))

GetSubmissions(subs, o) ==
    IF o.enableFilterSubmissionsByTimestamp = FALSE
    THEN subs
    ELSE SortSubmissions(FilterByTimestamp(subs, o.timestamp))

(***************************************************************************)
(* TeamProblemStatistics, ProblemStatistics, Team                          *)
(***************************************************************************)
NewTeamProblemStatistics ==
    [isSolved |-> FALSE, isFirstSolved |-> FALSE, isSubmitted |-> FALSE,
     solvedTimestamp |-> 0, lastSubmitTimestamp |-> 0,
     failedCount |-> 0, pendingCount |-> 0, ignoreCount |-> 0, totalCount |-> 0,
     contestPenalty |-> PenaltyUnit, submissions |-> <<>>]

\* TeamProblemStatistics.penalty: 0 when unsolved, else the solving timestamp
\* plus one penalty unit per failed attempt before the accepted one
ProblemPenalty(ps) ==
    IF ps.isSolved = FALSE THEN 0
    ELSE ps.solvedTimestamp + ps.failedCount * ps.contestPenalty

NewProblemStatistics ==
    [submittedNum |-> 0, acceptedNum |-> 0, rejectedNum |-> 0, pendingNum |-> 0,
     ignoreNum |-> 0, attemptedNum |-> 0,
     firstSolveSubmissions |-> <<>>, lastSolveSubmissions |-> <<>>]

\* the organization of the roster's teams: two teams per organization
OrganizationOf(id) == (id + 1) \div 2

NewTeam(id) ==
    [id |-> id, organization |-> OrganizationOf(id),
     rank |-> 0, organizationRank |-> -1,
     solvedProblemNum |-> 0, penalty |-> 0, lastSolvedProblemTimestamp |-> 0,
     submissions |-> <<>>, problemStatistics |-> <<>>]

\* Team.reset: every derived field back to its constructed value
ResetTeam(t) == NewTeam(t.id)

\* Team.calcSolvedData
CalcSolvedData(t) ==
    [t EXCEPT
       !.solvedProblemNum =
           Cardinality({p \in DOMAIN t.problemStatistics : t.problemStatistics[p].isSolved}),
       !.penalty =
           SumSeq([p \in DOMAIN t.problemStatistics |-> ProblemPenalty(t.problemStatistics[p])])]

\* Team.isEqualRank: the ranking keys are exactly equal
IsEqualRank(a, b) ==
    a.solvedProblemNum = b.solvedProblemNum /\ a.penalty = b.penalty

\* Team.compare < 0: more solved first, then less penalty, then the stable
\* secondary criterion (earlier last solve, then team id)
TeamLess(a, b) ==
    IF a.solvedProblemNum # b.solvedProblemNum
    THEN a.solvedProblemNum > b.solvedProblemNum
    ELSE IF a.penalty # b.penalty
    THEN a.penalty < b.penalty
    ELSE IF a.lastSolvedProblemTimestamp # b.lastSolvedProblemTimestamp
    THEN a.lastSolvedProblemTimestamp < b.lastSolvedProblemTimestamp
    ELSE a.id < b.id

\* buildRank without its sort
KeepTeamOrder(ts) == ts

RECURSIVE InsertTeam(_, _)
InsertTeam(x, ts) ==
    IF ts = <<>> THEN <<x>>
    ELSE IF TeamLess(x, Head(ts)) THEN <<x>> \o ts
    ELSE <<Head(ts)>> \o InsertTeam(x, Tail(ts))

\* teams.sort(Team.compare), a stable sort
RECURSIVE SortTeams(_)
SortTeams(ts) ==
    IF ts = <<>> THEN <<>>
    ELSE InsertTeam(ts[Len(ts)], SortTeams(SubSeq(ts, 1, Len(ts) - 1)))

(***************************************************************************)
(* Rank.buildRank                                                          *)
(***************************************************************************)
\* the team reset that keeps the team's accumulated submissions
ResetTeamsKeepingSubmissions(ts) ==
    [i \in DOMAIN ts |->
        [ResetTeam(ts[i]) EXCEPT
            !.submissions = ts[i].submissions,
            !.problemStatistics = [p \in ProblemIds |-> NewTeamProblemStatistics]]]

\* lines 62-74: reset every team and give it one fresh statistics per problem
ResetTeams(ts) ==
    [i \in DOMAIN ts |->
        [ResetTeam(ts[i]) EXCEPT
            !.problemStatistics = [p \in ProblemIds |-> NewTeamProblemStatistics]]]

\* buildRank without the reset of the problems' statistics
KeepProblems(pstats) == pstats

\* lines 76-78: reset every problem's aggregate statistics
ResetProblems(pstats) == [p \in DOMAIN pstats |-> NewProblemStatistics]

\* lines 118-124: the first-solve condition
IsFirstSolve(prob, s) ==
    \/ Len(prob.firstSolveSubmissions) = 0
    \/ prob.firstSolveSubmissions[Len(prob.firstSolveSubmissions)].timestamp = s.timestamp

\* a last-solve list that keeps its earlier entries
AppendLastSolve(list, s) == Append(list, s)

\* lines 126-130: the last-solve list is emptied, then holds the submission
ReplaceLastSolve(list, s) == <<s>>

\* lines 111-132: the accepted branch, on the pair <<team, problem statistics>>
ApplyAccepted(team, prob, s) ==
    LET ps == team.problemStatistics[s.problemId]
        first == IsFirstSolve(prob, s)
    IN <<[team EXCEPT
            !.problemStatistics[s.problemId].isSolved = TRUE,
            !.problemStatistics[s.problemId].solvedTimestamp = s.timestamp,
            !.problemStatistics[s.problemId].isFirstSolved = (@ \/ first),
            !.lastSolvedProblemTimestamp = s.timestamp],
         [prob EXCEPT
            !.acceptedNum = @ + 1,
            !.attemptedNum = @ + ps.failedCount + 1,
            !.firstSolveSubmissions = IF first THEN Append(@, s) ELSE @,
            !.lastSolveSubmissions = ReplaceLastSolve(@, s)]>>

\* the rejected branch that forgets the team's failed count
ApplyRejectedUncounted(team, prob, s) ==
    <<team, [prob EXCEPT !.rejectedNum = @ + 1]>>

\* lines 134-137
ApplyRejected(team, prob, s) ==
    <<[team EXCEPT !.problemStatistics[s.problemId].failedCount = @ + 1],
      [prob EXCEPT !.rejectedNum = @ + 1]>>

\* lines 139-142
ApplyPending(team, prob, s) ==
    <<[team EXCEPT !.problemStatistics[s.problemId].pendingCount = @ + 1],
      [prob EXCEPT !.pendingNum = @ + 1]>>

\* lines 83-86: a lookup in teamsMap or in contest.problemsMap gave undefined
UnknownReference(st, s) ==
    s.teamId \notin DOMAIN st.teams \/ s.problemId \notin DOMAIN st.problems

\* a skip that still counts the submission on a problem the contest has
SkipCountingSubmitted(st, s) ==
    IF s.problemId \in DOMAIN st.problems
    THEN [st EXCEPT !.problems[s.problemId].submittedNum = @ + 1]
    ELSE st

\* lines 86-88: continue
SkipSubmission(st, s) == st

\* a guard that lets a solved problem be counted again
NeverSolved(team, s) == FALSE

\* lines 97-99: the team has solved the problem already
AlreadySolved(team, s) == team.problemStatistics[s.problemId].isSolved

\* the ignorable test that looks at the verdict only
IsIgnorableVerdict(s) == IsNotCalculatedPenaltyStatus(s)

\* line 101: the ignore flag, or a verdict left out of the penalty
IsIgnorable(s) == s.isIgnore \/ IsNotCalculatedPenaltyStatus(s)

\* lines 81-142: one iteration of the replay loop, on
\* st = [teams : team id -> Team (teamsMap), problems : problem id -> statistics]
ProcessSubmission(st, s) ==
    IF UnknownReference(st, s)
    THEN SkipSubmission(st, s)
    ELSE
      LET team0 == st.teams[s.teamId]
          prob0 == st.problems[s.problemId]
          solved == AlreadySolved(team0, s)
          \* lines 93-95
          team1 == [team0 EXCEPT
                      !.problemStatistics[s.problemId].submissions = Append(@, s),
                      !.submissions = Append(@, s)]
          prob1 == [prob0 EXCEPT !.submittedNum = @ + 1]
          \* lines 101-105
          teamIg == [team1 EXCEPT !.problemStatistics[s.problemId].ignoreCount = @ + 1]
          probIg == [prob1 EXCEPT !.ignoreNum = @ + 1]
          \* lines 107-109
          team2 == [team1 EXCEPT
                      !.problemStatistics[s.problemId].isSubmitted = TRUE,
                      !.problemStatistics[s.problemId].lastSubmitTimestamp = s.timestamp,
                      !.problemStatistics[s.problemId].totalCount = @ + 1]
          a == IF IsAccepted(s) THEN ApplyAccepted(team2, prob1, s) ELSE <<team2, prob1>>
          r == IF IsRejected(s) THEN ApplyRejected(a[1], a[2], s) ELSE a
          q == IF IsPending(s) THEN ApplyPending(r[1], r[2], s) ELSE r
          res == IF solved THEN <<team1, prob1>>
                 ELSE IF IsIgnorable(s) THEN <<teamIg, probIg>>
                 ELSE q
      IN [teams |-> [st.teams EXCEPT ![s.teamId] = res[1]],
          problems |-> [st.problems EXCEPT ![s.problemId] = res[2]]]

\* lines 80-143: the replay loop over the visible submissions
RECURSIVE Replay(_, _)
Replay(st, subs) ==
    IF subs = <<>> THEN st
    ELSE Replay(ProcessSubmission(st, Head(subs)), Tail(subs))

\* rank assignment without the tie rule
AssignPositions(ts, n) == [i \in DOMAIN ts |-> [ts[i] EXCEPT !.rank = i]]

\* lines 148-162: ranks along the sorted sequence; a team whose key equals its
\* predecessor's takes the predecessor's rank
RECURSIVE AssignRanks(_, _)
AssignRanks(ts, n) ==
    IF n = 0 THEN ts
    ELSE LET prev == AssignRanks(ts, n - 1)
         IN [prev EXCEPT ![n].rank =
                IF n > 1 /\ IsEqualRank(prev[n], prev[n - 1])
                THEN prev[n - 1].rank
                ELSE n]

\* organization ranks that number every team, seen organization or not
RECURSIVE AssignOrganizationRanksToAll(_, _)
AssignOrganizationRanksToAll(ts, n) ==
    IF n = 0 THEN [teams |-> ts, rank |-> 1, pre |-> 0, se |-> {}]
    ELSE LET w == AssignOrganizationRanksToAll(ts, n - 1)
             t == w.teams[n]
         IN [teams |-> [w.teams EXCEPT ![n].organizationRank =
                            IF w.pre # 0 /\ IsEqualRank(t, w.teams[w.pre])
                            THEN w.teams[w.pre].organizationRank
                            ELSE w.rank],
             rank |-> w.rank + 1,
             pre |-> n,
             se |-> w.se \cup {t.organization}]

\* lines 164-187: organization ranks, on
\* w = [teams, rank (next number), pre (index of preTeam, 0 for null), se]
RECURSIVE AssignOrganizationRanks(_, _)
AssignOrganizationRanks(ts, n) ==
    IF n = 0 THEN [teams |-> ts, rank |-> 1, pre |-> 0, se |-> {}]
    ELSE LET w == AssignOrganizationRanks(ts, n - 1)
             t == w.teams[n]
         IN IF t.organization \in w.se THEN w
            ELSE [teams |-> [w.teams EXCEPT ![n].organizationRank =
                                IF w.pre # 0 /\ IsEqualRank(t, w.teams[w.pre])
                                THEN w.teams[w.pre].organizationRank
                                ELSE w.rank],
                  rank |-> w.rank + 1,
                  pre |-> n,
                  se |-> w.se \cup {t.organization}]

\* the histogram with every team counted one bucket too low
TeamSolvedNumShifted(ts) ==
    [k \in 1..(NumProblems + 1) |->
        Cardinality({i \in DOMAIN ts : ts[i].solvedProblemNum = k})]

\* lines 190-197: the histogram of teams by solved count
TeamSolvedNum(ts) ==
    [k \in 1..(NumProblems + 1) |->
        Cardinality({i \in DOMAIN ts : ts[i].solvedProblemNum = k - 1})]

\* lines 60-200: buildRank as a function of the Rank's state; the result is
\* [teams, problems, teamSolvedNum]
BuildRankResult(ts, pstats, subs, o, org) ==
    LET reset == ResetTeams(ts)
        byId == [id \in {reset[i].id : i \in DOMAIN reset} |->
                    reset[CHOOSE i \in DOMAIN reset : reset[i].id = id]]
        st == Replay([teams |-> byId, problems |-> ResetProblems(pstats)],
                     GetSubmissions(subs, o))
        calc == [i \in DOMAIN reset |-> CalcSolvedData(st.teams[reset[i].id])]
        sorted == SortTeams(calc)
        ranked == AssignRanks(sorted, Len(sorted))
        final == IF org THEN AssignOrganizationRanks(ranked, Len(ranked)).teams
                 ELSE ranked
    IN [teams |-> final, problems |-> st.problems, teamSolvedNum |-> TeamSolvedNum(final)]

(***************************************************************************)
(* The Rank state machine                                                  *)
(***************************************************************************)
\* what a submission record of the feed may hold: any team may solve any
\* problem at any time; rejections come from all teams but the last, on
\* problem 1; the remaining verdicts come from team 1 on problem 1 at time 1;
\* and one submission each of a team and of a problem the contest lacks
SubmissionShapes ==
    [teamId : TeamIds, problemId : ProblemIds, timestamp : 1..MaxTime,
     status : {"ACCEPTED"}, isIgnore : {FALSE}]
    \cup
    [teamId : 1..(NumTeams - 1), problemId : {1}, timestamp : 1..MaxTime,
     status : {"REJECTED"}, isIgnore : {FALSE}]
    \cup
    [teamId : {1}, problemId : {1}, timestamp : {1},
     status : {"PENDING", "COMPILATION_ERROR"}, isIgnore : {FALSE}]
    \cup
    [teamId : {1}, problemId : {1}, timestamp : {1},
     status : {"ACCEPTED"}, isIgnore : {TRUE}]
    \cup
    [teamId : {UnknownTeam}, problemId : {1}, timestamp : {1},
     status : {"ACCEPTED"}, isIgnore : {FALSE}]
    \cup
    [teamId : {1}, problemId : {UnknownProblem}, timestamp : {1},
     status : {"ACCEPTED"}, isIgnore : {FALSE}]

\* the feeds given to the constructor: up to MaxSubs submissions in any
\* order, the id of a submission being its position in the feed
WithIds(f) ==
    [i \in DOMAIN f |->
        [id |-> i, teamId |-> f[i].teamId, problemId |-> f[i].problemId,
         timestamp |-> f[i].timestamp, status |-> f[i].status,
         isIgnore |-> f[i].isIgnore]]

Feeds == UNION {[1..n -> SubmissionShapes] : n \in 0..MaxSubs}

\* a constructor that keeps the feed's order
KeepFeedOrder(input) == input

\* constructor, line 52: the owned copy is sorted once
ConstructSubmissions(input) == SortSubmissions(input)

\* constructor, lines 49-50: the owned roster, in the caller's order
ConstructTeams == [i \in 1..NumTeams |-> NewTeam(i)]

\* the problems of a created contest carry fresh statistics
ConstructProblems == [p \in ProblemIds |-> NewProblemStatistics]

InitContestIdle ==
    /\ contestJSON = Absent
    /\ contest = Absent

\* constructor, lines 46-58, of a second Rank over the same Contest and the
\* same feed: its own teams, its own statistics, its own options
ConstructOtherRank ==
    [teams |-> ConstructTeams, rankStatistics |-> <<>>, options |-> NewRankOptions]

InitOtherIdle ==
    /\ otherRank = ConstructOtherRank
    /\ otherComputed = Absent

\* getContestState has not been called
InitClockIdle ==
    /\ now = 0
    /\ contestState = Absent

Init ==
    /\ duration = MaxTime
    /\ organization = TRUE
    /\ problemStats = ConstructProblems
    /\ \E f \in Feeds : submissions = ConstructSubmissions(WithIds(f))
    /\ teams = ConstructTeams
    /\ rankStatistics = <<>>
    /\ options = NewRankOptions
    /\ builds = 0
    /\ buildsInRow = 0
    /\ InitContestIdle
    /\ InitOtherIdle
    /\ InitClockIdle

\* RankOptions.setWidth(width, contest)
SetWidth(width) ==
    /\ options' = SetWidthOptions(options, width, duration)
    /\ buildsInRow' = 0
    /\ UNCHANGED <<duration, organization, problemStats, submissions, teams,
                   rankStatistics, builds, contestVars, otherVars, clockVars>>

\* RankOptions.disableFilterSubmissionByTimestamp()
DisableFilterSubmissionByTimestamp ==
    /\ options' = DisableFilterOptions(options)
    /\ buildsInRow' = 0
    /\ UNCHANGED <<duration, organization, problemStats, submissions, teams,
                   rankStatistics, builds, contestVars, otherVars, clockVars>>

UpTo(n, max) == IF n < max THEN n + 1 ELSE max

\* Rank.buildRank()
BuildRank ==
    /\ LET r == BuildRankResult(teams, problemStats, submissions, options, organization)
       IN /\ teams' = r.teams
          /\ problemStats' = r.problems
          /\ rankStatistics' = r.teamSolvedNum
    /\ builds' = UpTo(builds, MaxBuilds)
    /\ buildsInRow' = UpTo(buildsInRow, MaxBuilds)
    /\ UNCHANGED <<duration, organization, submissions, options, contestVars,
                   otherVars, clockVars>>

Next ==
    \/ \E w \in Widths : SetWidth(w)
    \/ DisableFilterSubmissionByTimestamp
    \/ BuildRank

Spec == Init /\ [][Next]_vars

(***************************************************************************)
(* The Rank state machine over contests with and without organizations     *)
(***************************************************************************)
\* the feeds of these runs: one submission fewer than in the Rank runs
ShortFeeds == UNION {[1..n -> SubmissionShapes] : n \in 0..(MaxSubs - 1)}

InitOrganization ==
    /\ duration = MaxTime
    /\ organization \in BOOLEAN
    /\ problemStats = ConstructProblems
    /\ \E f \in ShortFeeds : submissions = ConstructSubmissions(WithIds(f))
    /\ teams = ConstructTeams
    /\ rankStatistics = <<>>
    /\ options = NewRankOptions
    /\ builds = 0
    /\ buildsInRow = 0
    /\ InitContestIdle
    /\ InitOtherIdle
    /\ InitClockIdle

SpecOrganization == InitOrganization /\ [][Next]_vars

(***************************************************************************)
(* Two Ranks over one Contest                                              *)
(***************************************************************************)
\* the feeds of the two-Rank runs: no submission, or one
SharedFeeds == {<<>>} \cup {<<s>> : s \in SubmissionShapes}

\* both Ranks are constructed over the same Contest and the same feed; each
\* holds its own deep copy of the teams and of the submissions (lines 49-53)
\* and the reference to the one Contest (line 47)
InitIsolation ==
    /\ duration = MaxTime
    /\ organization = TRUE
    /\ problemStats = ConstructProblems
    /\ \E f \in SharedFeeds : submissions = ConstructSubmissions(WithIds(f))
    /\ teams = ConstructTeams
    /\ rankStatistics = <<>>
    /\ options = NewRankOptions
    /\ builds = 0
    /\ buildsInRow = 0
    /\ InitContestIdle
    /\ InitOtherIdle
    /\ InitClockIdle

\* RankOptions.setWidth(width, contest) on the second Rank's options
OtherSetWidth(width) ==
    /\ otherRank' = [otherRank EXCEPT !.options = SetWidthOptions(@, width, duration)]
    /\ UNCHANGED <<rankVars, contestVars, otherComputed, clockVars>>

\* RankOptions.disableFilterSubmissionByTimestamp() on the second Rank's options
OtherDisableFilterSubmissionByTimestamp ==
    /\ otherRank' = [otherRank EXCEPT !.options = DisableFilterOptions(@)]
    /\ UNCHANGED <<rankVars, contestVars, otherComputed, clockVars>>

\* Rank.buildRank() on the second Rank: its teams and histogram are its own,
\* the problems' statistics it resets and counts up are the Contest's
OtherBuildRank ==
    /\ LET r == BuildRankResult(otherRank.teams, problemStats, submissions,
                                otherRank.options, organization)
       IN /\ otherRank' = [otherRank EXCEPT !.teams = r.teams,
                                            !.rankStatistics = r.teamSolvedNum]
          /\ problemStats' = r.problems
          /\ otherComputed' = Some(r.problems)
    /\ UNCHANGED <<duration, organization, submissions, teams, rankStatistics,
                   options, builds, buildsInRow, contestVars, clockVars>>

NextIsolation ==
    \/ \E w \in Widths : SetWidth(w)
    \/ DisableFilterSubmissionByTimestamp
    \/ BuildRank
    \/ \E w \in Widths : OtherSetWidth(w)
    \/ OtherDisableFilterSubmissionByTimestamp
    \/ OtherBuildRank

SpecIsolation == InitIsolation /\ [][NextIsolation]_vars

(***************************************************************************)
(* setWidth over the whole width scale                                     *)
(***************************************************************************)
InitWidth ==
    /\ duration \in Durations
    /\ organization = TRUE
    /\ problemStats = ConstructProblems
    /\ submissions = <<>>
    /\ teams = ConstructTeams
    /\ rankStatistics = <<>>
    /\ options = NewRankOptions
    /\ builds = 0
    /\ buildsInRow = 0
    /\ InitContestIdle
    /\ InitOtherIdle
    /\ InitClockIdle

\* the widths of these runs: every 25th of the scale, and the two next to its ends
ScaleWidths == {w \in 0..WidthScale : w % 25 = 0} \cup {1, WidthScale - 1}

NextWidth == \E w \in ScaleWidths : SetWidth(w)

SpecWidth == InitWidth /\ [][NextWidth]_vars

(***************************************************************************)
(* createContest                                                           *)
(***************************************************************************)
Tiers == {"gold", "silver", "bronze"}

\* work whose range ends one rank too far
WorkOverlapping(acc, v, key, medalType) ==
    IF key \in DOMAIN v
    THEN [award |-> Append(acc.award,
                       [medalType |-> medalType,
                        minRank |-> acc.rank,
                        maxRank |-> acc.rank + v[key]]),
          rank |-> acc.rank + v[key]]
    ELSE acc

\* work that pushes an empty range for a tier the configuration lacks
WorkAbsentTier(acc, v, key, medalType) ==
    IF key \in DOMAIN v
    THEN [award |-> Append(acc.award,
                       [medalType |-> medalType,
                        minRank |-> acc.rank,
                        maxRank |-> acc.rank + v[key] - 1]),
          rank |-> acc.rank + v[key]]
    ELSE [award |-> Append(acc.award,
                       [medalType |-> medalType,
                        minRank |-> acc.rank,
                        maxRank |-> acc.rank - 1]),
          rank |-> acc.rank]

\* lines 455-464: work(key, medalType), on acc = [award, rank]
Work(acc, v, key, medalType) ==
    IF key \in DOMAIN v
    THEN [award |-> Append(acc.award,
                       [medalType |-> medalType,
                        minRank |-> acc.rank,
                        maxRank |-> acc.rank + v[key] - 1]),
          rank |-> acc.rank + v[key]]
    ELSE acc

\* lines 470-476: the trailing honorable tier
Honorable(acc) ==
    Append(acc.award,
           [medalType |-> "HONORABLE", minRank |-> acc.rank, maxRank |-> Sentinel])

\* lines 452-476: the Award list of one group's medal counts
GroupAwards(v) ==
    LET a0 == [award |-> <<>>, rank |-> 1]
        a1 == Work(a0, v, "gold", "GOLD")
        a2 == Work(a1, v, "silver", "SILVER")
        a3 == Work(a2, v, "bronze", "BRONZE")
    IN Honorable(a3)

\* lines 441-481
CreateAwards(medal) ==
    IF medal = Absent THEN Absent
    ELSE Some([k \in DOMAIN medal[1] |-> GroupAwards(medal[1][k])])

\* lines 396-414: the freeze instant and the three durations, unix seconds
CreateTimes(json) ==
    LET total == json.end_time - json.start_time
        t0 == [freezeTime |-> json.end_time, freezeDuration |-> 0]
        t1 == IF json.frozen_time # Absent
              THEN [freezeTime |-> json.end_time - json.frozen_time[1],
                    freezeDuration |-> json.frozen_time[1]]
              ELSE t0
        t2 == IF json.freeze_time # Absent
              THEN [freezeTime |-> json.freeze_time[1],
                    freezeDuration |-> json.end_time - json.freeze_time[1]]
              ELSE t1
    IN [startTime |-> json.start_time,
        endTime |-> json.end_time,
        freezeTime |-> t2.freezeTime,
        totalDurationTimestamp |-> total,
        freezeDurationTimestamp |-> t2.freezeDuration,
        unFreezeDurationTimestamp |-> total - t2.freezeDuration]

\* lines 485-492: the synthesized default group
DefaultGroup == [isDefault |-> TRUE, en |-> "All", zhCN |-> "ALL-zh"]

\* lines 495-513: one declared group, as <<key, Group>>
DeclaredGroup(k, label) ==
    LET en == IF k = "official" THEN "Official"
              ELSE IF k = "unofficial" THEN "Unofficial"
              ELSE IF k = "girl" \/ k = "girls" THEN "Girls"
              ELSE None
        key == IF k = "girl" \/ k = "girls" THEN "girl" ELSE k
    IN <<key, [isDefault |-> FALSE, en |-> en, zhCN |-> label]>>

\* Map.set
MapSet(m, k, g) == [x \in DOMAIN m \cup {k} |-> IF x = k THEN g ELSE m[x]]

\* lines 485-514: "all" first, then the declared groups in the record's order
RECURSIVE CreateGroups(_, _)
CreateGroups(entries, n) ==
    IF n = 0 THEN MapSet(<<>>, "all", DefaultGroup)
    ELSE LET d == DeclaredGroup(entries[n][1], entries[n][2])
         IN MapSet(CreateGroups(entries, n - 1), d[1], d[2])

\* lines 386-526
CreateContestResult(json) ==
    [times |-> CreateTimes(json),
     penalty |-> json.penalty,
     medal |-> json.medal,
     awards |-> CreateAwards(json.medal),
     group |-> CreateGroups(json.group, Len(json.group))]

\* the medal counts of one group: any subset of the tiers, 0..MaxMedal each
MedalCounts == UNION {[S -> 0..MaxMedal] : S \in SUBSET Tiers}

MedalKeys == {"all", "official"}

\* the medal configurations: undefined, or medal counts for some groups
MedalConfigs ==
    {Absent} \cup {Some(m) : m \in UNION {[G -> MedalCounts] : G \in SUBSET MedalKeys}}

\* the declared groups: sequences of distinct keys, each with its label
GroupKeys == {"all", "official", "girl", "girls"}

GroupEntries ==
    {<<>>} \cup {<<<<k, k>>>> : k \in GroupKeys}
    \cup {<<<<p[1], p[1]>>, <<p[2], p[2]>>>> :
            p \in {q \in GroupKeys \X GroupKeys : q[1] # q[2]}}

DefaultJSON ==
    [start_time |-> 0, end_time |-> MaxTime, frozen_time |-> Absent,
     freeze_time |-> Absent, penalty |-> PenaltyUnit, medal |-> Absent, group |-> <<>>]

\* the records given to createContest: one part varies, the others are absent
ContestInputs ==
    {[DefaultJSON EXCEPT !.medal = m] : m \in MedalConfigs}
    \cup {[DefaultJSON EXCEPT !.group = g] : g \in GroupEntries}
    \cup {[DefaultJSON EXCEPT !.end_time = e, !.frozen_time = fd, !.freeze_time = ft] :
            e \in 0..MaxTime,
            fd \in {Absent} \cup {Some(x) : x \in 0..MaxTime},
            ft \in {Absent} \cup {Some(x) : x \in 0..MaxTime}}

InitRankIdle ==
    /\ duration = MaxTime
    /\ organization = TRUE
    /\ problemStats = ConstructProblems
    /\ submissions = <<>>
    /\ teams = ConstructTeams
    /\ rankStatistics = <<>>
    /\ options = NewRankOptions
    /\ builds = 0
    /\ buildsInRow = 0

InitContest ==
    /\ InitRankIdle
    /\ contestJSON \in {Some(j) : j \in ContestInputs}
    /\ contest = Absent
    /\ InitOtherIdle
    /\ InitClockIdle

\* createContest(contestJSON)
CreateContest ==
    /\ contest = Absent
    /\ contest' = Some(CreateContestResult(contestJSON[1]))
    /\ UNCHANGED <<rankVars, contestJSON, otherVars, clockVars>>

NextContest == CreateContest

SpecContest == InitContest /\ [][NextContest]_vars

(***************************************************************************)
(* Contest.getContestState under an advancing clock                        *)
(***************************************************************************)
\* getContestState with the freeze instant tested before the end
ContestStateFreezeFirst(t, n) ==
    IF n < t.startTime THEN "PENDING"
    ELSE IF n >= t.freezeTime THEN "FROZEN"
    ELSE IF n >= t.endTime THEN "FINISHED"
    ELSE "RUNNING"

\* lines 303-319: getContestState(nowTime) on the times t of a Contest
ContestStateAt(t, n) ==
    IF n < t.startTime THEN "PENDING"
    ELSE IF n >= t.endTime THEN "FINISHED"
    ELSE IF n >= t.freezeTime THEN "FROZEN"
    ELSE "RUNNING"

\* the instants of the clock: from before the start to after the latest end
Instants == (0 - 1)..(MaxTime + 1)

\* the records of these runs: the ones that vary the times
ClockInputs == {j \in ContestInputs : j.medal = Absent /\ j.group = <<>>}

InitClock ==
    /\ InitRankIdle
    /\ contestJSON \in {Some(j) : j \in ClockInputs}
    /\ contest = Absent
    /\ InitOtherIdle
    /\ now \in Instants
    /\ contestState = Absent

\* contest.getContestState(nowTime), the clock never running backwards
GetContestState(n) ==
    /\ contest # Absent
    /\ n >= now
    /\ now' = n
    /\ contestState' = Some(ContestStateAt(contest[1].times, n))
    /\ UNCHANGED <<rankVars, contestVars, otherVars>>

NextClock ==
    \/ CreateContest
    \/ \E n \in Instants : GetContestState(n)

SpecClock == InitClock /\ [][NextClock]_vars

(***************************************************************************)
(* Properties of RankOptions and getSubmissions                            *)
(***************************************************************************)
\* what getSubmissions returns in the current state
Visible == GetSubmissions(submissions, options)

IsAscending(s) == \A i \in 1..(Len(s) - 1) : s[i].timestamp <= s[i + 1].timestamp

IsInjective(s) == \A i, j \in DOMAIN s : s[i] = s[j] => i = j

\* C3: with the filter enabled at cutoff C, getSubmissions returns exactly the
\* owned submissions with timestamp <= C, each once, in ascending timestamp
\* order; with the filter disabled it returns every owned submission (the
\* ids 1..n of the feed), each once, in ascending timestamp order.
FilterCorrectness ==
    /\ IsAscending(Visible)
    /\ IsInjective(Visible)
    /\ options.enableFilterSubmissionsByTimestamp =>
          Range(Visible) = {s \in Range(submissions) : s.timestamp <= options.timestamp}
    /\ ~options.enableFilterSubmissionsByTimestamp =>
          /\ Visible = submissions
          /\ {s.id : s \in Range(Visible)} = 1..Len(submissions)

\* a cutoff that hides one submission and shows two, set after another one
FilterWitness ==
    /\ options.enableFilterSubmissionsByTimestamp
    /\ options.timestamp = 1
    /\ builds >= 1
    /\ Len(Visible) = 2
    /\ Len(submissions) = 3
    /\ submissions[1].id # 1

\* C4 as stated: setWidth sets the cutoff to exactly D x width x 0.0001.
CutoffIsExactProduct ==
    options.enableFilterSubmissionsByTimestamp =>
        options.timestamp * WidthScale = duration * options.width

\* C4 amended: setWidth(width, contest) enables the filter and sets the cutoff
\* to the floor of D x width x 0.0001; width 10000 gives D, and width 5000 on
\* an 18000 s contest gives 9000.
CutoffIsFlooredProduct ==
    /\ options = NewRankOptions \/ options.enableFilterSubmissionsByTimestamp
    /\ options.enableFilterSubmissionsByTimestamp =>
          /\ options.timestamp * WidthScale <= duration * options.width
          /\ duration * options.width < (options.timestamp + 1) * WidthScale
          /\ options.width = WidthScale => options.timestamp = duration
          /\ (duration = 18000 /\ options.width = 5000) => options.timestamp = 9000

\* setWidth(5000) on the 18000 s contest
CutoffWitness ==
    /\ options.enableFilterSubmissionsByTimestamp
    /\ duration = 18000
    /\ options.width = 5000
    /\ options.timestamp = 9000

(***************************************************************************)
(* Properties of buildRank                                                 *)
(***************************************************************************)
\* the state is the one a buildRank call left
Built == buildsInRow >= 1

Output == <<teams, problemStats, rankStatistics>>

\* C1: a buildRank that directly follows a buildRank, nothing changed in
\* between, leaves the team order, every team's fields, the per-problem
\* statistics and the histogram as they were.
BuildTwiceSame ==
    [][(buildsInRow >= 1 /\ buildsInRow' >= 2) => Output' = Output]_vars

\* two builds in a row over a feed that reorders the roster
BuildTwiceWitness ==
    /\ buildsInRow = 2
    /\ teams[1].id # 1
    /\ teams[1].solvedProblemNum = 2
    /\ problemStats[1].submittedNum >= 2

\* C2: whatever setWidth / disableFilter / buildRank calls came before, the
\* output of the last buildRank is the output of one buildRank on a freshly
\* constructed Rank with the same options.
BuildFromScratch ==
    Built =>
        LET fresh == BuildRankResult(ConstructTeams, ConstructProblems,
                                     submissions, options, organization)
        IN /\ teams = fresh.teams
           /\ problemStats = fresh.problems
           /\ rankStatistics = fresh.teamSolvedNum

\* a rebuild, unfiltered, after an earlier build and a cutoff that hid a solve
BuildFromScratchWitness ==
    /\ builds >= 2
    /\ buildsInRow = 1
    /\ ~options.enableFilterSubmissionsByTimestamp
    /\ options.timestamp = 1
    /\ teams[1].id # 1
    /\ \E i \in DOMAIN submissions :
          submissions[i].timestamp = 2 /\ IsAccepted(submissions[i])

BetterKey(a, b) ==
    \/ a.solvedProblemNum > b.solvedProblemNum
    \/ a.solvedProblemNum = b.solvedProblemNum /\ a.penalty < b.penalty

EqualKey(a, b) ==
    a.solvedProblemNum = b.solvedProblemNum /\ a.penalty = b.penalty

\* C5: after buildRank every team is weakly better on (solved count, penalty)
\* than the team after it, and adjacent teams with equal keys have equal ranks.
RankMonotonicity ==
    Built =>
        \A i \in 1..(Len(teams) - 1) :
            /\ BetterKey(teams[i], teams[i + 1]) \/ EqualKey(teams[i], teams[i + 1])
            /\ EqualKey(teams[i], teams[i + 1]) => teams[i].rank = teams[i + 1].rank

\* the last team of the roster leads on penalty, the other two tie behind it
RankMonotonicityWitness ==
    /\ Built
    /\ teams[1].id = NumTeams
    /\ teams[1].solvedProblemNum = teams[2].solvedProblemNum
    /\ teams[1].penalty < teams[2].penalty
    /\ EqualKey(teams[2], teams[3])
    /\ teams[2].solvedProblemNum = 1

\* C6: after buildRank the first team has rank 1, a later team has its
\* predecessor's rank when their keys are equal and its 1-based position
\* otherwise, every rank is 1 plus the number of teams with a strictly better
\* key, and every rank lies in 1..n.
RankAssignment ==
    Built =>
        /\ teams[1].rank = 1
        /\ \A i \in 2..Len(teams) :
              teams[i].rank = IF EqualKey(teams[i], teams[i - 1])
                              THEN teams[i - 1].rank ELSE i
        /\ \A i \in DOMAIN teams :
              /\ teams[i].rank =
                    1 + Cardinality({j \in DOMAIN teams : BetterKey(teams[j], teams[i])})
              /\ teams[i].rank \in 1..Len(teams)

\* two teams with one solve and equal penalty behind a team that solved earlier
RankAssignmentWitness ==
    /\ Built
    /\ BetterKey(teams[1], teams[2])
    /\ teams[2].solvedProblemNum = 1
    /\ teams[2].penalty = 2
    /\ EqualKey(teams[2], teams[3])
    /\ <<teams[1].rank, teams[2].rank, teams[3].rank>> = <<1, 2, 2>>

\* the submissions of team t on problem p that count: visible, not ignored
Counted(t, p) ==
    SelectSeq(Visible,
              LAMBDA s : /\ s.teamId = t /\ s.problemId = p
                         /\ ~s.isIgnore /\ s.status # "COMPILATION_ERROR")

\* the position of the first accepted one among them, 0 when there is none
FirstAccepted(c) ==
    IF \E k \in DOMAIN c : c[k].status = "ACCEPTED"
    THEN CHOOSE k \in DOMAIN c :
            /\ c[k].status = "ACCEPTED"
            /\ \A j \in 1..(k - 1) : c[j].status # "ACCEPTED"
    ELSE 0

RejectedBefore(c, k) == Cardinality({j \in 1..(k - 1) : c[j].status = "REJECTED"})

ExpectedContribution(t, p) ==
    LET c == Counted(t, p)
        k == FirstAccepted(c)
    IN IF k = 0 THEN 0 ELSE c[k].timestamp + PenaltyUnit * RejectedBefore(c, k)

\* C7: after buildRank an unsolved problem contributes 0 to the penalty, a
\* solved one its solving timestamp plus one penalty unit per counted rejected
\* submission of the team on the problem replayed before the accepting one,
\* and a team's penalty is the sum of its problems' contributions.
PenaltyComposition ==
    Built =>
        \A i \in DOMAIN teams :
            LET t == teams[i] IN
            /\ \A p \in ProblemIds :
                  LET ps == t.problemStatistics[p]
                      c == Counted(t.id, p)
                      k == FirstAccepted(c)
                  IN /\ ps.isSolved = (k # 0)
                     /\ ~ps.isSolved => ProblemPenalty(ps) = 0
                     /\ ps.isSolved =>
                           /\ ps.solvedTimestamp = c[k].timestamp
                           /\ ps.failedCount = RejectedBefore(c, k)
                           /\ ProblemPenalty(ps) = ExpectedContribution(t.id, p)
            /\ t.penalty = SumSeq([p \in ProblemIds |-> ExpectedContribution(t.id, p)])

\* team 1: rejected at 1, accepted at 2 on problem 1, one penalty unit added
PenaltyWitness ==
    /\ Built
    /\ \E i \in DOMAIN teams :
          /\ teams[i].id = 1
          /\ teams[i].problemStatistics[1].isSolved
          /\ teams[i].problemStatistics[1].solvedTimestamp = 2
          /\ teams[i].problemStatistics[1].failedCount = 1
          /\ teams[i].penalty = 2 + PenaltyUnit
          /\ ~teams[i].problemStatistics[2].isSolved

\* C8: after buildRank the histogram has (number of problems + 1) buckets,
\* bucket k counts the teams with solved count k, every solved count lies in
\* 0..number of problems, and the buckets sum to the number of teams.
HistogramSum ==
    Built =>
        /\ Len(rankStatistics) = NumProblems + 1
        /\ \A k \in 0..NumProblems :
              rankStatistics[k + 1] =
                  Cardinality({i \in DOMAIN teams : teams[i].solvedProblemNum = k})
        /\ \A i \in DOMAIN teams : teams[i].solvedProblemNum \in 0..NumProblems
        /\ SumSeq(rankStatistics) = Len(teams)

\* one team in each of the buckets 0, 1 and 2
HistogramWitness ==
    /\ Built
    /\ rankStatistics = <<1, 1, 1>>

(***************************************************************************)
(* Properties of createContest                                             *)
(***************************************************************************)
Created == contest # Absent

MedalTypeOf(key) ==
    IF key = "gold" THEN "GOLD" ELSE IF key = "silver" THEN "SILVER" ELSE "BRONZE"

\* C9: for every group of the medal configuration the Award list splits the
\* ranks 1..sentinel: the first range starts at 1, each next range starts at
\* the previous range's max + 1, and the last range is the honorable tier
\* with max 0x3F3F3F3F.
AwardPartition ==
    (Created /\ contestJSON[1].medal # Absent) =>
        /\ contest[1].awards # Absent
        /\ DOMAIN contest[1].awards[1] = DOMAIN contestJSON[1].medal[1]
        /\ \A g \in DOMAIN contest[1].awards[1] :
              LET a == contest[1].awards[1][g] IN
              /\ Len(a) >= 1
              /\ a[1].minRank = 1
              /\ \A i \in 1..(Len(a) - 1) : a[i + 1].minRank = a[i].maxRank + 1
              /\ \A i \in 1..Len(a) : a[i].minRank <= a[i].maxRank + 1
              /\ a[Len(a)].medalType = "HONORABLE"
              /\ a[Len(a)].maxRank = Sentinel

\* two groups with medals, one of them with all three tiers
AwardPartitionWitness ==
    /\ Created
    /\ contest[1].awards # Absent
    /\ DOMAIN contest[1].awards[1] = MedalKeys
    /\ Len(contest[1].awards[1]["all"]) = 4
    /\ contest[1].awards[1]["all"][3].minRank = 4
    /\ contest[1].awards[1]["all"][4].minRank = 6
    /\ Len(contest[1].awards[1]["official"]) = 2

\* the tiers a group's medal counts hold, in the fixed order
PresentTiers(v) == SelectSeq(<<"gold", "silver", "bronze">>, LAMBDA k : k \in DOMAIN v)

\* C10: a group's Award list holds, in the order gold, silver, bronze, exactly
\* the tiers present in its configuration, each covering as many consecutive
\* ranks as its count, then one honorable tier; an absent tier gives no Award
\* and reserves no rank.
AwardTiers ==
    (Created /\ contestJSON[1].medal # Absent) =>
        \A g \in DOMAIN contestJSON[1].medal[1] :
            LET v == contestJSON[1].medal[1][g]
                tiers == PresentTiers(v)
                a == contest[1].awards[1][g]
                claimed(i) == SumSeq([j \in 1..(i - 1) |-> v[tiers[j]]])
            IN /\ Len(a) = Len(tiers) + 1
               /\ \A i \in 1..Len(tiers) :
                     /\ a[i].medalType = MedalTypeOf(tiers[i])
                     /\ a[i].minRank = 1 + claimed(i)
                     /\ a[i].maxRank - a[i].minRank + 1 = v[tiers[i]]
               /\ a[Len(a)].medalType = "HONORABLE"
               /\ a[Len(a)].minRank = 1 + claimed(Len(a))
               /\ a[Len(a)].maxRank = Sentinel

\* {gold: 1, silver: 2}: gold [1,1], silver [2,3], honorable [4, sentinel]
AwardTiersWitness ==
    /\ Created
    /\ contestJSON[1].medal # Absent
    /\ "all" \in DOMAIN contestJSON[1].medal[1]
    /\ DOMAIN contestJSON[1].medal[1]["all"] = {"gold", "silver"}
    /\ contest[1].awards[1]["all"] =
          <<[medalType |-> "GOLD", minRank |-> 1, maxRank |-> 1],
            [medalType |-> "SILVER", minRank |-> 2, maxRank |-> 3],
            [medalType |-> "HONORABLE", minRank |-> 4, maxRank |-> Sentinel]>>

(***************************************************************************)
(* Properties of the replay loop                                           *)
(***************************************************************************)
\* the submissions that name a team of the roster and a problem of the contest
KnownReferences(subs) ==
    SelectSeq(subs, LAMBDA s : s.teamId \in TeamIds /\ s.problemId \in ProblemIds)

\* C11: a submission of an unknown team or on an unknown problem is skipped
\* and changes nothing: buildRank gives the teams, ranks, per-team and
\* per-problem statistics (submitted counters included) and histogram that
\* buildRank gives over the same submissions with those ones removed.
UnknownReferenceSkipped ==
    Built =>
        LET clean == BuildRankResult(ConstructTeams, ConstructProblems,
                                     KnownReferences(submissions), options, organization)
        IN /\ teams = clean.teams
           /\ problemStats = clean.problems
           /\ rankStatistics = clean.teamSolvedNum

\* a build over one known solve, one submission of an unknown team on
\* problem 1 and one of team 1 on an unknown problem
UnknownReferenceWitness ==
    /\ Built
    /\ ~options.enableFilterSubmissionsByTimestamp
    /\ \E i \in DOMAIN submissions : submissions[i].teamId = UnknownTeam
    /\ \E i \in DOMAIN submissions : submissions[i].problemId = UnknownProblem
    /\ Len(KnownReferences(submissions)) = 1
    /\ problemStats[1].submittedNum = 1
    /\ problemStats[1].acceptedNum = 1

\* the state the replay loop starts from, lines 62-78
ReplayStart ==
    LET reset == ResetTeams(ConstructTeams)
    IN [teams |-> [id \in TeamIds |-> reset[id]],
        problems |-> ResetProblems(ConstructProblems)]

\* the state of the replay loop after its first k iterations
AfterStep(k) == Replay(ReplayStart, SubSeq(Visible, 1, k))

\* the replay loop ended in the statistics the state holds
ReplayedToState ==
    LET end == AfterStep(Len(Visible))
    IN /\ problemStats = end.problems
       /\ \A i \in DOMAIN teams :
             /\ teams[i].problemStatistics = end.teams[teams[i].id].problemStatistics
             /\ teams[i].submissions = end.teams[teams[i].id].submissions

\* C12: within one buildRank a solved team-problem pair stays solved, and a
\* later submission of that team on that problem is only recorded: it is
\* appended to the team's and the pair's submission lists and the problem's
\* submitted counter goes up by one; every other field of every team and of
\* every problem (flags, timestamps, counts, first-solve and last-solve
\* lists) is as before.
PostSolveFrame ==
    Built =>
        /\ ReplayedToState
        /\ \A k \in 1..Len(Visible) :
              LET s == Visible[k]
                  before == AfterStep(k - 1)
                  after == AfterStep(k)
              IN /\ \A t \in TeamIds, p \in ProblemIds :
                        before.teams[t].problemStatistics[p].isSolved =>
                            after.teams[t].problemStatistics[p].isSolved
                 /\ ( /\ s.teamId \in TeamIds
                      /\ s.problemId \in ProblemIds
                      /\ before.teams[s.teamId].problemStatistics[s.problemId].isSolved ) =>
                        /\ after.teams =
                              [before.teams EXCEPT
                                 ![s.teamId].submissions = Append(@, s),
                                 ![s.teamId].problemStatistics[s.problemId].submissions =
                                     Append(@, s)]
                        /\ after.problems =
                              [before.problems EXCEPT ![s.problemId].submittedNum = @ + 1]

\* a team solves a problem at its first submission and then sends a rejected
\* and an accepted one on it
PostSolveWitness ==
    /\ Built
    /\ \E i \in DOMAIN teams : \E p \in ProblemIds :
          LET ps == teams[i].problemStatistics[p] IN
          /\ ps.isSolved
          /\ Len(ps.submissions) = 3
          /\ IsAccepted(ps.submissions[1])
          /\ \E k \in 2..3 : IsRejected(ps.submissions[k])
          /\ \E k \in 2..3 : IsAccepted(ps.submissions[k])
          /\ ps.solvedTimestamp = ps.submissions[1].timestamp
          /\ ps.failedCount = 0
          /\ ps.totalCount = 1
          /\ problemStats[p].submittedNum = 3
          /\ problemStats[p].acceptedNum = 1
          /\ problemStats[p].rejectedNum = 0


\* the solving submission of every team that solved problem p: the first
\* accepted one among the team's counted submissions on p
SolvingSubmissions(p) ==
    {Counted(t, p)[FirstAccepted(Counted(t, p))] :
        t \in {u \in TeamIds : FirstAccepted(Counted(u, p)) # 0}}

\* C13: after buildRank the first-solve list of every problem holds, each
\* once, exactly the solving submissions whose timestamp is the earliest
\* solving timestamp of the problem among the visible submissions, and a
\* team's statistics for the problem have isFirstSolved set exactly when the
\* team's solving submission is in that list.
FirstSolveList ==
    Built =>
        \A p \in ProblemIds :
            LET solves == SolvingSubmissions(p)
                earliest == {s \in solves : \A x \in solves : s.timestamp <= x.timestamp}
                list == problemStats[p].firstSolveSubmissions
            IN /\ Range(list) = earliest
               /\ IsInjective(list)
               /\ \A i \in DOMAIN teams :
                     LET c == Counted(teams[i].id, p)
                         k == FirstAccepted(c)
                     IN teams[i].problemStatistics[p].isFirstSolved =
                           (k # 0 /\ c[k] \in Range(list))

\* two teams tie for the first solve of a problem, a third one solves it later
FirstSolveWitness ==
    /\ Built
    /\ \E p \in ProblemIds :
          /\ Len(problemStats[p].firstSolveSubmissions) = 2
          /\ problemStats[p].acceptedNum = 3
          /\ \E i \in DOMAIN teams :
                /\ teams[i].problemStatistics[p].isSolved
                /\ ~teams[i].problemStatistics[p].isFirstSolved
                /\ teams[i].problemStatistics[p].solvedTimestamp = 2


\* the visible accepted submissions of known teams on problem p, in replay order
AcceptedOn(p) ==
    SelectSeq(Visible,
              LAMBDA s : s.teamId \in TeamIds /\ s.problemId = p /\ IsAccepted(s))

\* C14 as stated: after buildRank the last-solve list of every problem holds
\* exactly the accepted submission on the problem that is latest in replay
\* order among the visible submissions with known team and problem, and is
\* empty only when the problem has no accepted submission.
LastSolveIsLastAccepted ==
    Built =>
        \A p \in ProblemIds :
            LET acc == AcceptedOn(p)
            IN problemStats[p].lastSolveSubmissions =
                  IF acc = <<>> THEN <<>> ELSE <<acc[Len(acc)]>>

\* the solving submissions of problem p, in replay order
SolvesOn(p) ==
    SelectSeq(Visible, LAMBDA s : s.problemId = p /\ s \in SolvingSubmissions(p))

\* C14 amended: after buildRank the last-solve list of every problem holds
\* exactly the solving submission (a team's first accepted submission on the
\* problem that is not ignored) latest in replay order, a single element, and
\* is empty exactly when no team solved the problem.
LastSolveIsLastSolving ==
    Built =>
        \A p \in ProblemIds :
            LET sol == SolvesOn(p)
            IN /\ problemStats[p].lastSolveSubmissions =
                     IF sol = <<>> THEN <<>> ELSE <<sol[Len(sol)]>>
               /\ (problemStats[p].lastSolveSubmissions = <<>>) =
                     (problemStats[p].acceptedNum = 0)

\* two teams solve a problem one after the other, and the first of them
\* sends one more accepted submission after the second one's solve
LastSolveWitness ==
    /\ Built
    /\ \E p \in ProblemIds :
          /\ Len(SolvesOn(p)) = 2
          /\ Len(AcceptedOn(p)) = 3
          /\ problemStats[p].lastSolveSubmissions = <<SolvesOn(p)[2]>>
          /\ AcceptedOn(p)[3] # SolvesOn(p)[2]
          /\ AcceptedOn(p)[3].teamId = SolvesOn(p)[1].teamId


\* the derived fields of a team-problem statistics that a submission may
\* change besides its submission list and its ignore counter
CountedFields(ps) ==
    [isSubmitted |-> ps.isSubmitted, isSolved |-> ps.isSolved,
     isFirstSolved |-> ps.isFirstSolved, solvedTimestamp |-> ps.solvedTimestamp,
     lastSubmitTimestamp |-> ps.lastSubmitTimestamp, failedCount |-> ps.failedCount,
     pendingCount |-> ps.pendingCount, totalCount |-> ps.totalCount,
     penalty |-> ProblemPenalty(ps)]

\* C19: a submission with the ignore flag set, or with a verdict left out of
\* the penalty, on a problem its team has not solved yet adds one to the
\* ignore counter of the team-problem statistics and of the problem, is
\* recorded like every submission, and changes nothing else: not the
\* submitted or solved flag, the failed, pending or total count, the
\* last-submit timestamp or the penalty, also when its verdict is accepted.
IgnorableFrame ==
    Built =>
        /\ ReplayedToState
        /\ \A k \in 1..Len(Visible) :
              LET s == Visible[k]
                  before == AfterStep(k - 1)
                  after == AfterStep(k)
              IN ( /\ s.teamId \in TeamIds
                   /\ s.problemId \in ProblemIds
                   /\ s.isIgnore \/ s.status = "COMPILATION_ERROR"
                   /\ ~before.teams[s.teamId].problemStatistics[s.problemId].isSolved ) =>
                     LET psB == before.teams[s.teamId].problemStatistics[s.problemId]
                         psA == after.teams[s.teamId].problemStatistics[s.problemId]
                     IN /\ psA.ignoreCount = psB.ignoreCount + 1
                        /\ after.problems[s.problemId].ignoreNum =
                              before.problems[s.problemId].ignoreNum + 1
                        /\ CountedFields(psA) = CountedFields(psB)
                        /\ after.teams =
                              [before.teams EXCEPT
                                 ![s.teamId].submissions = Append(@, s),
                                 ![s.teamId].problemStatistics[s.problemId].submissions =
                                     Append(@, s),
                                 ![s.teamId].problemStatistics[s.problemId].ignoreCount =
                                     @ + 1]
                        /\ after.problems =
                              [before.problems EXCEPT
                                 ![s.problemId].submittedNum = @ + 1,
                                 ![s.problemId].ignoreNum = @ + 1]

\* team 1 sends an ignored accepted submission and a compilation error on
\* problem 1 and solves nothing
IgnorableWitness ==
    /\ Built
    /\ \E i \in DOMAIN teams :
          LET ps == teams[i].problemStatistics[1] IN
          /\ teams[i].id = 1
          /\ ps.ignoreCount = 2
          /\ \E k \in DOMAIN ps.submissions :
                ps.submissions[k].isIgnore /\ IsAccepted(ps.submissions[k])
          /\ \E k \in DOMAIN ps.submissions : ps.submissions[k].status = "COMPILATION_ERROR"
          /\ ~ps.isSubmitted
          /\ ~ps.isSolved
          /\ ps.totalCount = 0
          /\ teams[i].penalty = 0
          /\ problemStats[1].ignoreNum = 2
          /\ problemStats[1].acceptedNum = 0


(***************************************************************************)
(* Replay at growing cutoffs                                               *)
(***************************************************************************)
\* buildRank on this Rank with the filter enabled at cutoff c
BuildAtCutoff(c) ==
    BuildRankResult(ConstructTeams, ConstructProblems, submissions,
                    [options EXCEPT !.enableFilterSubmissionsByTimestamp = TRUE,
                                    !.timestamp = c],
                    organization)

\* buildRank on this Rank with the filter disabled
BuildUnfiltered ==
    BuildRankResult(ConstructTeams, ConstructProblems, submissions,
                    DisableFilterOptions(options), organization)

TeamById(ts, id) == ts[CHOOSE i \in DOMAIN ts : ts[i].id = id]

\* C20: after buildRank at cutoff C1, buildRank at any cutoff C2 >= C1 finds
\* every team-problem pair solved at C1 solved, with the same solving
\* timestamp and failed count; no team's solved count and no problem's
\* submitted or accepted counter is lower at C2; and when C1 is at or beyond
\* the last submission timestamp the build equals the unfiltered build.
CutoffMonotone ==
    (Built /\ options.enableFilterSubmissionsByTimestamp) =>
        /\ \A c2 \in options.timestamp..(MaxTime + 1) :
              LET later == BuildAtCutoff(c2) IN
              /\ \A t \in TeamIds :
                    LET a == TeamById(teams, t)
                        b == TeamById(later.teams, t)
                    IN /\ a.solvedProblemNum <= b.solvedProblemNum
                       /\ \A p \in ProblemIds :
                             a.problemStatistics[p].isSolved =>
                                /\ b.problemStatistics[p].isSolved
                                /\ b.problemStatistics[p].solvedTimestamp =
                                      a.problemStatistics[p].solvedTimestamp
                                /\ b.problemStatistics[p].failedCount =
                                      a.problemStatistics[p].failedCount
              /\ \A p \in ProblemIds :
                    /\ problemStats[p].submittedNum <= later.problems[p].submittedNum
                    /\ problemStats[p].acceptedNum <= later.problems[p].acceptedNum
        /\ (\A i \in DOMAIN submissions : submissions[i].timestamp <= options.timestamp) =>
              /\ teams = BuildUnfiltered.teams
              /\ problemStats = BuildUnfiltered.problems
              /\ rankStatistics = BuildUnfiltered.teamSolvedNum

\* a build at cutoff 1 that shows a team's solve of one problem and hides its
\* later solve of the other and another team's rejected submission
CutoffMonotoneWitness ==
    /\ Built
    /\ options.enableFilterSubmissionsByTimestamp
    /\ options.timestamp = 1
    /\ \E i \in DOMAIN teams :
          /\ teams[i].solvedProblemNum = 1
          /\ TeamById(BuildAtCutoff(MaxTime).teams, teams[i].id).solvedProblemNum = 2
    /\ \E p \in ProblemIds :
          /\ problemStats[p].submittedNum = 0
          /\ BuildUnfiltered.problems[p].submittedNum = 2
          /\ BuildUnfiltered.problems[p].rejectedNum = 1


(***************************************************************************)
(* Properties of createContest: times and groups                           *)
(***************************************************************************)
\* C15: every created Contest has freeze <= end and frozen duration +
\* unfrozen duration = total duration, whichever of the frozen duration and
\* the explicit freeze instant the record gives: with neither, freeze = end
\* and the frozen duration is 0; with an explicit freeze instant, alone or
\* with a frozen duration, freeze is that instant and the frozen duration is
\* end - freeze.
FreezeWithinContest ==
    Created =>
        LET j == contestJSON[1]
            t == contest[1].times
        IN /\ t.freezeTime <= t.endTime
           /\ t.freezeDurationTimestamp + t.unFreezeDurationTimestamp =
                 t.totalDurationTimestamp
           /\ (j.frozen_time = Absent /\ j.freeze_time = Absent) =>
                 /\ t.freezeTime = t.endTime
                 /\ t.freezeDurationTimestamp = 0
           /\ j.freeze_time # Absent =>
                 /\ t.freezeTime = j.freeze_time[1]
                 /\ t.freezeDurationTimestamp = t.endTime - t.freezeTime

\* C16: every created Contest has a group under the key "all" that is marked
\* default, whatever groups the record declares, a group with the key "all"
\* included; and the keys girl and girls of the record both end up under the
\* single key girl.
DefaultGroupKept ==
    Created =>
        LET g == contest[1].group
            declared == {contestJSON[1].group[i][1] : i \in DOMAIN contestJSON[1].group}
        IN /\ "all" \in DOMAIN g
           /\ g["all"].isDefault
           /\ "girls" \notin DOMAIN g
           /\ (declared \cap {"girl", "girls"} # {}) =>
                 ("girl" \in DOMAIN g /\ g["girl"].en = "Girls")


(***************************************************************************)
(* Properties of two Ranks over one Contest                                *)
(***************************************************************************)
\* C17: two Ranks over the same Contest are isolated: whatever builds the
\* first Rank runs, with its own cutoff, the per-problem statistics
\* (counters, first-solve and last-solve lists) that the second Rank reads
\* are the ones its own last build computed.
RanksIsolated ==
    otherComputed # Absent => problemStats = otherComputed[1]


(***************************************************************************)
(* Properties of the organization ranks                                    *)
(***************************************************************************)
\* the positions of the sorted teams where an organization appears first
FirstOfOrganization ==
    {i \in DOMAIN teams :
        \A j \in 1..(i - 1) : teams[j].organization # teams[i].organization}

\* the organization rank of a team that was given none: the value Team.reset left
NoOrganizationRank(t) == ResetTeam(t).organizationRank

OrderedTimes ==
    /\ contest # Absent
    /\ contest[1].times.startTime <= contest[1].times.freezeTime
    /\ contest[1].times.freezeTime <= contest[1].times.endTime

\* the place of a state in the order PENDING, RUNNING, FROZEN, FINISHED
StateOrder(st) ==
    IF st = "PENDING" THEN 1
    ELSE IF st = "RUNNING" THEN 2
    ELSE IF st = "FROZEN" THEN 3
    ELSE 4

\* the state returned is the one the instant's place among the times names
StateMatchesInstant ==
    LET t == contest[1].times
        st == contestState[1]
    IN /\ (st = "PENDING") = (now < t.startTime)
       /\ (st = "RUNNING") = (t.startTime <= now /\ now < t.freezeTime)
       /\ (st = "FROZEN") = (t.freezeTime <= now /\ now < t.endTime)
       /\ (st = "FINISHED") = (now >= t.endTime)
       /\ t.freezeTime = t.endTime => st # "FROZEN"

\* C21: for a contest with start <= freeze <= end, getContestState returns
\* PENDING exactly when now < start, RUNNING exactly when start <= now <
\* freeze, FROZEN exactly when freeze <= now < end and FINISHED exactly when
\* now >= end; a call at a later instant never returns an earlier state of
\* the order PENDING, RUNNING, FROZEN, FINISHED; and FROZEN is never returned
\* when freeze = end.
StateFollowsClock ==
    [][(OrderedTimes' /\ contestState' # Absent) =>
          /\ StateMatchesInstant'
          /\ contestState # Absent =>
                StateOrder(contestState[1]) <= StateOrder(contestState'[1])]_vars

\* a contest with start < freeze < end, seen frozen at its freeze instant
StateFollowsClockWitness ==
    /\ OrderedTimes
    /\ contest[1].times.startTime < contest[1].times.freezeTime
    /\ contest[1].times.freezeTime < contest[1].times.endTime
    /\ now = contest[1].times.freezeTime
    /\ contestState = Some("FROZEN")


====
